---- MODULE Spec2Model ----
(***************************************************************************)
(* DualHeadActorCritic (brace/policy.py): a shared two-layer ReLU backbone *)
(* with a sigmoid gamma head and a linear value head.                      *)
(*                                                                         *)
(* Tensors are sequences of rows, a row is a sequence of numbers.  Inputs, *)
(* weights, biases, the hidden representation and V hold integer-valued    *)
(* float32 numbers; with the magnitudes reached here every product and sum *)
(* is exact in float32.  gamma holds IEEE-754 binary32 bit patterns, the   *)
(* encoding of what torch.sigmoid returns for float32 tensors (for         *)
(* non-negative floats the order of the bit patterns is the order of the   *)
(* values).  Inputs live on the device of the parameters.                  *)
(***************************************************************************)
EXTENDS Integers, Sequences, FiniteSets, TLC

VARIABLES
    obs_dim,     \* in_features of backbone[0], fixed by __init__
    hidden,      \* width of the backbone, fixed by __init__
    device,      \* where self.to(device) placed the parameters
    backbone,    \* nn.Sequential(Linear, ReLU, Linear, ReLU)
    gamma_head,  \* nn.Linear(hidden, 1)
    value_head,  \* nn.Linear(hidden, 1)
    built,       \* history: the configuration and parameters as __init__ left them
    pc,          \* per forward call: where the call stands
    obs,         \* per call: the argument obs
    z,           \* per call: the local z
    gamma,       \* per call: the local gamma
    value,       \* per call: the local value
    evals,       \* history, per call: how often the call has run self.backbone
    ret,         \* per call: what the call handed to its caller
    kept         \* history: one earlier returned call, as its caller kept it (Spec)

vars == <<obs_dim, hidden, device, backbone, gamma_head, value_head, built,
          pc, obs, z, gamma, value, evals, ret, kept>>

params == <<backbone, gamma_head, value_head>>
config == <<obs_dim, hidden, device>>

-----------------------------------------------------------------------------
(* Bounds of the model *)

\* number of forward calls that may be in flight at once (SpecConc)
NumCalls == 2
\* largest batch size B of an input
MaxB == 2

Callers == 1 .. NumCalls

\* (obs_dim, hidden) pairs a network is built with
Dims == {<<1, 2>>, <<4, 8>>}
Devices == {"cpu", "cuda"}

\* Parameter values of a Linear layer: weight[o][i] is seed.even where o+i is
\* even and seed.odd elsewhere, every bias entry is seed.bias.
Seed(e, o, b) == [even |-> e, odd |-> o, bias |-> b]
Seeds0 == {Seed(0, 0, 1), Seed(1, -1, 1)}
Seeds2 == {Seed(0, 0, 2), Seed(1, -1, 1)}
SeedsGamma == {Seed(0, 0, -1), Seed(3, 1, 2), Seed(-3, -1, 2)}
SeedsValue == {Seed(0, 0, 3), Seed(2, -1, -1)}

\* rows of an input: row[i] is a at odd i and b at even i
RowSeeds == {<<0, 0>>, <<1, -2>>}
Rows(d) == {[i \in 1 .. d |-> IF i % 2 = 1 THEN s[1] ELSE s[2]] : s \in RowSeeds}

RECURSIVE Batches(_, _)
Batches(R, n) ==
    IF n = 0 THEN {<<>>}
    ELSE {Append(b, r) : b \in Batches(R, n - 1), r \in R}

\* inputs of shape (B, obs_dim), 1 <= B <= MaxB
GoodInputs(d) == UNION {Batches(Rows(d), n) : n \in 1 .. MaxB}
\* inputs of shape (B, w) with w # obs_dim
WrongWidths(d) == {w \in {d - 1, d + 1} : w >= 1}
BadInputs(d) ==
    {[r \in 1 .. n |-> [i \in 1 .. w |-> 1]] : n \in 1 .. MaxB, w \in WrongWidths(d)}
Inputs(d) == GoodInputs(d) \cup BadInputs(d)

-----------------------------------------------------------------------------
(* torch.sigmoid on float32 *)

\* binary32 bit pattern of 1.0
One32 == 1065353216
\* binary32 bit pattern of 0.0
Zero32 == 0
\* first and last argument of SigmoidTable
SigLo == 0 - 88
SigHi == 16

\* 1 / (1 + exp(-a)) evaluated in binary32, each operation rounded to nearest,
\* for a = SigLo .. SigHi.  Above SigHi, 1 + exp(-a) rounds to 1 and the
\* quotient is 1.0; below SigLo, exp(-a) overflows to +inf and the quotient is 0.0.
SigmoidTable ==
    <<
       4320708, 11744903, 24351587, 36013792, 48298349, 60351179,
       72338211, 84751831, 96464058, 109210919, 120669328, 133230227,
       144947952, 157190223, 169294331, 181242305, 193703289, 205379441,
       218170046, 229595136, 242110749, 253883390, 266083833, 278238663,
       290148004, 302655836, 314296305, 327104652, 338522313, 350993132,
       362820093, 374979161, 387184163, 399055289, 411609462, 423214636,
       435975008, 447450844, 459877355, 471758045, 483876190, 496130818,
       507964145, 520564154, 532134415, 544847338, 556380713, 568763398,
       580697234, 592774898, 605078615, 616874553, 629519902, 641055629,
       653721616, 665311908, 677651240, 689637647, 701675271, 714027542,
       725786497, 738476693, 749978262, 762597820, 774244412, 786540863,
       798579270, 810577286, 822977587, 834699960, 847434517, 858902297,
       871475931, 883178210, 895432236, 907522067, 919480846, 931928584,
       943614360, 956392315, 967823855, 980341660, 992086971, 1004228532,
       1016289233, 1027752354, 1039409321, 1049211569, 1056964608, 1060841128,
       1063353322, 1064557542, 1065051457, 1065240929, 1065311733, 1065337932,
       1065347590, 1065351146, 1065352454, 1065352936, 1065353112, 1065353178,
       1065353202, 1065353210, 1065353214
    >>

Sigmoid32(a) ==
    IF a > SigHi THEN One32
    ELSE IF a < SigLo THEN Zero32
    ELSE SigmoidTable[a - SigLo + 1]

Sigmoid(x) == [r \in DOMAIN x |-> [j \in DOMAIN x[r] |-> Sigmoid32(x[r][j])]]

-----------------------------------------------------------------------------
(* torch.nn layers *)

NoTensor == <<>>
Ok(t) == [raised |-> FALSE, error |-> "", t |-> t]
Raise(e) == [raised |-> TRUE, error |-> e, t |-> NoTensor]
ShapeError == "RuntimeError: mat1 and mat2 shapes cannot be multiplied"

\* nn.Linear(in_features, out_features): weight of shape (out, in), bias (out)
NewLinear(in_features, out_features, seed) ==
    [kind |-> "Linear",
     weight |-> [o \in 1 .. out_features |->
                   [i \in 1 .. in_features |->
                      IF (o + i) % 2 = 0 THEN seed.even ELSE seed.odd]],
     bias |-> [o \in 1 .. out_features |-> seed.bias]]

NewReLU == [kind |-> "ReLU"]

InFeatures(layer) == Len(layer.weight[1])

RECURSIVE Dot(_, _, _)
Dot(w, x, n) == IF n = 0 THEN 0 ELSE Dot(w, x, n - 1) + w[n] * x[n]

\* Linear with bias=False
LinearNoBias(layer, x) ==
    IF \E r \in DOMAIN x : Len(x[r]) # InFeatures(layer)
    THEN Raise(ShapeError)
    ELSE Ok([r \in DOMAIN x |->
               [o \in DOMAIN layer.weight |-> Dot(layer.weight[o], x[r], Len(x[r]))]])

\* Linear that truncates to the common width instead of raising
LinearUnchecked(layer, x) ==
    Ok([r \in DOMAIN x |->
          [o \in DOMAIN layer.weight |->
             Dot(layer.weight[o], x[r],
                 IF Len(x[r]) < InFeatures(layer) THEN Len(x[r]) ELSE InFeatures(layer))
             + layer.bias[o]]])

\* nn.Linear.forward: x @ weight.T + bias, or the shape error of the matmul
Linear(layer, x) ==
    IF \E r \in DOMAIN x : Len(x[r]) # InFeatures(layer)
    THEN Raise(ShapeError)
    ELSE Ok([r \in DOMAIN x |->
               [o \in DOMAIN layer.weight |->
                  Dot(layer.weight[o], x[r], Len(x[r])) + layer.bias[o]]])

\* nn.ReLU.forward
ReLU(x) == [r \in DOMAIN x |-> [j \in DOMAIN x[r] |-> IF x[r][j] > 0 THEN x[r][j] ELSE 0]]

Apply(m, x) == IF m.kind = "Linear" THEN Linear(m, x) ELSE Ok(ReLU(x))

\* nn.Sequential.forward: the modules in order; an exception ends it
RECURSIVE SequentialFrom(_, _, _)
SequentialFrom(mods, i, x) ==
    IF i > Len(mods) THEN Ok(x)
    ELSE LET y == Apply(mods[i], x)
         IN  IF y.raised THEN y ELSE SequentialFrom(mods, i + 1, y.t)

\* Sequential behind a batch normalisation: every column shifted by its minimum over the batch
SequentialCentered(mods, x) ==
    LET lo(j) == CHOOSE m \in {x[r][j] : r \in DOMAIN x} :
                     \A r \in DOMAIN x : m <= x[r][j]
    IN  SequentialFrom(mods, 1, [r \in DOMAIN x |-> [j \in DOMAIN x[r] |-> x[r][j] - lo(j)]])

Sequential(mods, x) == SequentialFrom(mods, 1, x)

-----------------------------------------------------------------------------
(* DualHeadActorCritic *)

NoResult == [status |-> "none", error |-> "", out |-> <<NoTensor, NoTensor>>]
Returned(g, v) == [status |-> "returned", error |-> "", out |-> <<g, v>>]
Raised(e) == [status |-> "raised", error |-> e, out |-> <<NoTensor, NoTensor>>]
NoCall == [made |-> FALSE, obs |-> NoTensor, ret |-> NoResult]

\* __init__
Init ==
    \E d \in Dims, dev \in Devices, s0 \in Seeds0, s2 \in Seeds2,
       sg \in SeedsGamma, sv \in SeedsValue :
        /\ obs_dim = d[1]
        /\ hidden = d[2]
        /\ backbone = <<NewLinear(d[1], d[2], s0), NewReLU,
                        NewLinear(d[2], d[2], s2), NewReLU>>
        /\ gamma_head = NewLinear(d[2], 1, sg)
        /\ value_head = NewLinear(d[2], 1, sv)
        /\ device = dev
        /\ built = <<<<d[1], d[2], dev>>,
                     <<<<NewLinear(d[1], d[2], s0), NewReLU,
                         NewLinear(d[2], d[2], s2), NewReLU>>,
                       NewLinear(d[2], 1, sg), NewLinear(d[2], 1, sv)>>>>
        /\ pc = [c \in Callers |-> "idle"]
        /\ obs = [c \in Callers |-> NoTensor]
        /\ z = [c \in Callers |-> NoTensor]
        /\ gamma = [c \in Callers |-> NoTensor]
        /\ value = [c \in Callers |-> NoTensor]
        /\ evals = [c \in Callers |-> 0]
        /\ ret = [c \in Callers |-> NoResult]
        /\ kept = NoCall

\* forward(obs) is entered: the call's frame is fresh
Call(c, x) ==
    /\ pc[c] = "idle"
    /\ pc' = [pc EXCEPT ![c] = "l29"]
    /\ obs' = [obs EXCEPT ![c] = x]
    /\ z' = [z EXCEPT ![c] = NoTensor]
    /\ gamma' = [gamma EXCEPT ![c] = NoTensor]
    /\ value' = [value EXCEPT ![c] = NoTensor]
    /\ evals' = [evals EXCEPT ![c] = 0]
    /\ ret' = [ret EXCEPT ![c] = NoResult]
    /\ UNCHANGED <<obs_dim, hidden, device, backbone, gamma_head, value_head, built, kept>>

\* line 29 keeping the hidden representation in an attribute of the module (self.z)
Line29Shared(c) ==
    /\ pc[c] = "l29"
    /\ LET r == Sequential(backbone, obs[c])
       IN  /\ evals' = [evals EXCEPT ![c] = @ + 1]
           /\ IF r.raised
              THEN /\ pc' = [pc EXCEPT ![c] = "idle"]
                   /\ ret' = [ret EXCEPT ![c] = Raised(r.error)]
                   /\ z' = z
              ELSE /\ pc' = [pc EXCEPT ![c] = "l30"]
                   /\ z' = [d \in Callers |-> r.t]
                   /\ ret' = ret
    /\ UNCHANGED <<obs_dim, hidden, device, backbone, gamma_head, value_head, built,
                   obs, gamma, value, kept>>

\* z = self.backbone(obs)
Line29(c) ==
    /\ pc[c] = "l29"
    /\ LET r == Sequential(backbone, obs[c])
       IN  /\ evals' = [evals EXCEPT ![c] = @ + 1]
           /\ IF r.raised
              THEN /\ pc' = [pc EXCEPT ![c] = "idle"]
                   /\ ret' = [ret EXCEPT ![c] = Raised(r.error)]
                   /\ z' = z
              ELSE /\ pc' = [pc EXCEPT ![c] = "l30"]
                   /\ z' = [z EXCEPT ![c] = r.t]
                   /\ ret' = ret
    /\ UNCHANGED <<obs_dim, hidden, device, backbone, gamma_head, value_head, built,
                   obs, gamma, value, kept>>

\* line 30 clamping the gamma head's bias in place (bias.clamp_(max=0)) before use
Line30InPlace(c) ==
    /\ pc[c] = "l30"
    /\ gamma_head' = [gamma_head EXCEPT
                        !.bias = [o \in DOMAIN @ |-> IF @[o] > 0 THEN 0 ELSE @[o]]]
    /\ LET r == Linear(gamma_head', z[c])
       IN  IF r.raised
           THEN /\ pc' = [pc EXCEPT ![c] = "idle"]
                /\ ret' = [ret EXCEPT ![c] = Raised(r.error)]
                /\ gamma' = gamma
           ELSE /\ pc' = [pc EXCEPT ![c] = "l31"]
                /\ gamma' = [gamma EXCEPT ![c] = Sigmoid(r.t)]
                /\ ret' = ret
    /\ UNCHANGED <<obs_dim, hidden, device, backbone, value_head, built,
                   obs, z, value, evals, kept>>

\* gamma = torch.sigmoid(self.gamma_head(z))
Line30(c) ==
    /\ pc[c] = "l30"
    /\ LET r == Linear(gamma_head, z[c])
       IN  IF r.raised
           THEN /\ pc' = [pc EXCEPT ![c] = "idle"]
                /\ ret' = [ret EXCEPT ![c] = Raised(r.error)]
                /\ gamma' = gamma
           ELSE /\ pc' = [pc EXCEPT ![c] = "l31"]
                /\ gamma' = [gamma EXCEPT ![c] = Sigmoid(r.t)]
                /\ ret' = ret
    /\ UNCHANGED <<obs_dim, hidden, device, backbone, gamma_head, value_head, built,
                   obs, z, value, evals, kept>>

\* line 31 on the first row of z only (z[:1])
Line31FirstRow(c) ==
    /\ pc[c] = "l31"
    /\ LET r == Linear(value_head, z[c])
       IN  IF r.raised
           THEN /\ pc' = [pc EXCEPT ![c] = "idle"]
                /\ ret' = [ret EXCEPT ![c] = Raised(r.error)]
                /\ value' = value
           ELSE /\ pc' = [pc EXCEPT ![c] = "l32"]
                /\ value' = [value EXCEPT ![c] = <<r.t[1]>>]
                /\ ret' = ret
    /\ UNCHANGED <<obs_dim, hidden, device, backbone, gamma_head, value_head, built,
                   obs, z, gamma, evals, kept>>

\* line 31 through the gamma head (self.gamma_head(z))
Line31WrongHead(c) ==
    /\ pc[c] = "l31"
    /\ LET r == Linear(gamma_head, z[c])
       IN  IF r.raised
           THEN /\ pc' = [pc EXCEPT ![c] = "idle"]
                /\ ret' = [ret EXCEPT ![c] = Raised(r.error)]
                /\ value' = value
           ELSE /\ pc' = [pc EXCEPT ![c] = "l32"]
                /\ value' = [value EXCEPT ![c] = r.t]
                /\ ret' = ret
    /\ UNCHANGED <<obs_dim, hidden, device, backbone, gamma_head, value_head, built,
                   obs, z, gamma, evals, kept>>

\* line 31 of a module that counts its calls in the value head's bias
Line31Drift(c) ==
    /\ pc[c] = "l31"
    /\ value_head' = [value_head EXCEPT
                        !.bias = [o \in DOMAIN @ |-> IF @[o] < 6 THEN @[o] + 1 ELSE @[o]]]
    /\ LET r == Linear(value_head, z[c])
       IN  IF r.raised
           THEN /\ pc' = [pc EXCEPT ![c] = "idle"]
                /\ ret' = [ret EXCEPT ![c] = Raised(r.error)]
                /\ value' = value
           ELSE /\ pc' = [pc EXCEPT ![c] = "l32"]
                /\ value' = [value EXCEPT ![c] = r.t]
                /\ ret' = ret
    /\ UNCHANGED <<obs_dim, hidden, device, backbone, gamma_head, built,
                   obs, z, gamma, evals, kept>>

\* value = self.value_head(z)
Line31(c) ==
    /\ pc[c] = "l31"
    /\ LET r == Linear(value_head, z[c])
       IN  IF r.raised
           THEN /\ pc' = [pc EXCEPT ![c] = "idle"]
                /\ ret' = [ret EXCEPT ![c] = Raised(r.error)]
                /\ value' = value
           ELSE /\ pc' = [pc EXCEPT ![c] = "l32"]
                /\ value' = [value EXCEPT ![c] = r.t]
                /\ ret' = ret
    /\ UNCHANGED <<obs_dim, hidden, device, backbone, gamma_head, value_head, built,
                   obs, z, gamma, evals, kept>>

\* line 32 returning the pair in the other order (return value, gamma)
Line32Swapped(c) ==
    /\ pc[c] = "l32"
    /\ pc' = [pc EXCEPT ![c] = "idle"]
    /\ ret' = [ret EXCEPT ![c] = Returned(value[c], gamma[c])]
    /\ UNCHANGED <<obs_dim, hidden, device, backbone, gamma_head, value_head, built,
                   obs, z, gamma, value, evals, kept>>

\* return gamma, value
Line32(c) ==
    /\ pc[c] = "l32"
    /\ pc' = [pc EXCEPT ![c] = "idle"]
    /\ ret' = [ret EXCEPT ![c] = Returned(gamma[c], value[c])]
    /\ UNCHANGED <<obs_dim, hidden, device, backbone, gamma_head, value_head, built,
                   obs, z, gamma, value, evals, kept>>

\* the caller keeps the input and the pair its call returned, to compare a
\* later call with it
Keep(c) ==
    /\ pc[c] = "idle"
    /\ ret[c].status = "returned"
    /\ kept' = [made |-> TRUE, obs |-> obs[c], ret |-> ret[c]]
    /\ UNCHANGED <<obs_dim, hidden, device, backbone, gamma_head, value_head, built,
                   pc, obs, z, gamma, value, evals, ret>>

\* one caller: each forward call runs to its end before the next is made
Next ==
    \/ \E x \in Inputs(obs_dim) : Call(1, x)
    \/ Line29(1)
    \/ Line30(1)
    \/ Line31(1)
    \/ Line32(1)
    \/ Keep(1)

Spec == Init /\ [][Next]_vars

\* NumCalls callers: forward calls on the same network, interleaved line by line
ConcInputs(d) == {x \in Inputs(d) : Len(x) = 1}

NextConc ==
    \E c \in Callers :
        \/ \E x \in ConcInputs(obs_dim) : Call(c, x)
        \/ Line29(c)
        \/ Line30(c)
        \/ Line31(c)
        \/ Line32(c)

\* the networks of SpecConc: placed on the cpu
InitConc == Init /\ device = "cpu"

SpecConc == InitConc /\ [][NextConc]_vars

-----------------------------------------------------------------------------
(* What the claims speak of, written out entry by entry from the parameters *)

HasReturned(c) == ret[c].status = "returned"
HasRaised(c) == ret[c].status = "raised"
RightWidth(x) == \A r \in DOMAIN x : Len(x[r]) = obs_dim

\* sum over i of w[i] * v[i]
RECURSIVE WeightedSumFrom(_, _, _)
WeightedSumFrom(w, v, i) ==
    IF i > Len(v) THEN 0 ELSE w[i] * v[i] + WeightedSumFrom(w, v, i + 1)

WeightedSum(w, v) == WeightedSumFrom(w, v, 1)

\* W v + b for one vector v
Affine(layer, v) ==
    [o \in 1 .. Len(layer.weight) |-> WeightedSum(layer.weight[o], v) + layer.bias[o]]

Positive(v) == [j \in 1 .. Len(v) |-> IF v[j] < 0 THEN 0 ELSE v[j]]

\* ReLU(W2 ReLU(W1 row + b1) + b2)
HiddenOf(bb, row) == Positive(Affine(bb[3], Positive(Affine(bb[1], row))))
\* sigmoid(Wg h + bg)
GammaOf(head, h) == Sigmoid32(Affine(head, h)[1])
\* Wv h + bv
ValueOf(head, h) == Affine(head, h)[1]

\* the pair a forward call on x returns when it runs alone on the network as built
AloneZ(x) == [r \in 1 .. Len(x) |-> HiddenOf(built[2][1], x[r])]
AloneGamma(x) == LET h == AloneZ(x) IN [r \in 1 .. Len(x) |-> <<GammaOf(built[2][2], h[r])>>]
AloneValue(x) == LET h == AloneZ(x) IN [r \in 1 .. Len(x) |-> <<ValueOf(built[2][3], h[r])>>]

AllWeightsZero ==
    \A layer \in {backbone[1], backbone[3], gamma_head, value_head} :
        \A o \in DOMAIN layer.weight : \A i \in DOMAIN layer.weight[o] :
            layer.weight[o][i] = 0

ZeroBatch(n, d) == [r \in 1 .. n |-> [i \in 1 .. d |-> 0]]

-----------------------------------------------------------------------------
(* The claims *)

\* C1: every entry of a returned gamma lies strictly between 0 and 1: it is
\* neither the float 0.0 nor the float 1.0 (all inputs here are finite).
C1_GammaStrictlyInside ==
    \A c \in Callers :
        HasReturned(c) =>
            \A r \in DOMAIN ret[c].out[1] : \A j \in DOMAIN ret[c].out[1][r] :
                /\ ret[c].out[1][r][j] > Zero32
                /\ ret[c].out[1][r][j] < One32

\* C2: forward on a (B, obs_dim) input returns gamma and V of shape (B, 1):
\* as many rows as the input, one scalar per row.
C2_OutputShapes ==
    \A c \in Callers :
        (HasReturned(c) /\ RightWidth(obs[c])) =>
            /\ Len(ret[c].out) = 2
            /\ \A k \in 1 .. 2 :
                /\ Len(ret[c].out[k]) = Len(obs[c])
                /\ \A r \in DOMAIN ret[c].out[k] : Len(ret[c].out[k][r]) = 1

C2_Witness ==
    /\ HasReturned(1)
    /\ Len(obs[1]) = MaxB
    /\ obs_dim = 4
    /\ hidden = 8

\* C3: whatever forward calls were made, returned or raised, obs_dim, hidden,
\* the device and every weight and bias are as __init__ left them.
C3_NetworkUnchanged == <<config, params>> = built

C3_Witness ==
    /\ HasRaised(1)
    /\ kept.made
    /\ <<config, params>> = built

\* C4: a row of a batch gets the gamma and the V that the same row gets when
\* it is passed alone as a batch of one, whichever of the two calls came first.
C4_BatchInvariance ==
    \A c \in Callers :
        (HasReturned(c) /\ kept.made) =>
            /\ \A i \in DOMAIN obs[c] :
                kept.obs = <<obs[c][i]>> =>
                    /\ ret[c].out[1][i] = kept.ret.out[1][1]
                    /\ ret[c].out[2][i] = kept.ret.out[2][1]
            /\ \A i \in DOMAIN kept.obs :
                obs[c] = <<kept.obs[i]>> =>
                    /\ kept.ret.out[1][i] = ret[c].out[1][1]
                    /\ kept.ret.out[2][i] = ret[c].out[2][1]

C4_Witness ==
    /\ HasReturned(1)
    /\ kept.made
    /\ Len(obs[1]) = 2
    /\ obs[1][1] # obs[1][2]
    /\ kept.obs = <<obs[1][2]>>
    /\ ret[1].out[1][1] # ret[1].out[1][2]
    /\ ret[1].out[2][1] # ret[1].out[2][2]

\* C5: two forward calls with the same input on the same parameters return the
\* same pair, whatever calls were made before or between them.
C5_Determinism ==
    \A c \in Callers :
        (HasReturned(c) /\ kept.made /\ kept.obs = obs[c]) => kept.ret = ret[c]

C5_Witness ==
    /\ HasReturned(1)
    /\ kept.made
    /\ kept.obs = obs[1]
    /\ Len(obs[1]) = 2
    /\ obs[1][1] # obs[1][2]

\* C6: a forward call on an input whose width is not obs_dim ends at line 29
\* with the shape error of the first Linear layer: nothing is computed or
\* returned, the error is the layer's own, and the network is unchanged.
C6_ShapeMismatchRaises ==
    \A c \in Callers :
        (obs[c] # NoTensor /\ ~RightWidth(obs[c])) =>
            /\ pc[c] \in {"l29", "idle"}
            /\ z[c] = NoTensor /\ gamma[c] = NoTensor /\ value[c] = NoTensor
            /\ pc[c] = "idle" =>
                /\ ret[c] = Raised(ShapeError)
                /\ evals[c] = 1
            /\ params = built[2]

C6_Witness ==
    /\ HasRaised(1)
    /\ obs[1] # NoTensor
    /\ ~RightWidth(obs[1])
    /\ Len(obs[1]) = 2

\* C7: with every weight zero, each row of gamma is sigmoid(gamma head bias)
\* and each row of V is the value head bias, whatever the input and the
\* backbone biases.
C7_ZeroWeights ==
    \A c \in Callers :
        (AllWeightsZero /\ HasReturned(c)) =>
            /\ ret[c].out[1] = [r \in 1 .. Len(obs[c]) |-> <<Sigmoid32(gamma_head.bias[1])>>]
            /\ ret[c].out[2] = [r \in 1 .. Len(obs[c]) |-> <<value_head.bias[1]>>]

C7_Witness ==
    /\ AllWeightsZero
    /\ HasReturned(1)
    /\ Len(obs[1]) = 2
    /\ obs[1][1] # obs[1][2]
    /\ backbone[1].bias[1] # 0
    /\ backbone[3].bias[1] # 0

\* C8 as stated: with obs_dim = 4 and hidden = 8, forward on the zero batch of
\* shape (2, 4) returns sigmoid(gamma head bias) in both rows of gamma.
C8_ZeroInputGivesSigmoidOfBias ==
    \A c \in Callers :
        (obs_dim = 4 /\ hidden = 8 /\ HasReturned(c) /\ obs[c] = ZeroBatch(2, 4)) =>
            ret[c].out[1] = <<<<Sigmoid32(gamma_head.bias[1])>>,
                              <<Sigmoid32(gamma_head.bias[1])>>>>

\* C8 amended: on the zero batch the two rows of gamma are equal, and equal to
\* sigmoid(Wg z0 + bg) for z0 = ReLU(W2 ReLU(b1) + b2); that is
\* sigmoid(gamma head bias) where Wg z0 = 0.
C8_ZeroInputGamma ==
    \A c \in Callers :
        (obs_dim = 4 /\ hidden = 8 /\ HasReturned(c) /\ obs[c] = ZeroBatch(2, 4)) =>
            LET z0 == Positive([o \in 1 .. 8 |->
                          WeightedSum(backbone[3].weight[o], Positive(backbone[1].bias))
                          + backbone[3].bias[o]])
                g0 == Sigmoid32(WeightedSum(gamma_head.weight[1], z0) + gamma_head.bias[1])
            IN  /\ ret[c].out[1] = <<<<g0>>, <<g0>>>>
                /\ WeightedSum(gamma_head.weight[1], z0) = 0 =>
                       ret[c].out[1][1][1] = Sigmoid32(gamma_head.bias[1])

C8_Witness ==
    /\ obs_dim = 4
    /\ hidden = 8
    /\ HasReturned(1)
    /\ obs[1] = ZeroBatch(2, 4)
    /\ ret[1].out[1][1][1] # Sigmoid32(gamma_head.bias[1])
    /\ ret[1].out[1][1][1] > Zero32
    /\ ret[1].out[1][1][1] < One32

\* C9: with several forward calls interleaved line by line on one network,
\* each call holds at every line, and returns, exactly what it would running
\* alone, and the parameters stay as built.
C9_ConcurrentCallsAsAlone ==
    \A c \in Callers :
        /\ params = built[2]
        /\ pc[c] \in {"l30", "l31", "l32"} => z[c] = AloneZ(obs[c])
        /\ pc[c] \in {"l31", "l32"} => gamma[c] = AloneGamma(obs[c])
        /\ pc[c] = "l32" => value[c] = AloneValue(obs[c])
        /\ HasReturned(c) => ret[c] = Returned(AloneGamma(obs[c]), AloneValue(obs[c]))
        /\ HasRaised(c) => ~RightWidth(obs[c])

C9_Witness ==
    /\ pc[1] = "l31"
    /\ pc[2] = "l30"
    /\ obs[1] # obs[2]
    /\ z[1] # z[2]

\* C10: a returned call ran the backbone once; its z is
\* ReLU(W2 ReLU(W1 obs + b1) + b2), so no entry of z is negative; the pair is
\* (gamma, V) in this order with gamma = sigmoid(Wg z + bg), a function of the
\* backbone and the gamma head only, and V = Wv z + bv with no activation, a
\* function of the backbone and the value head only.
C10_SharedHiddenTwoHeads ==
    \A c \in Callers :
        HasReturned(c) =>
            /\ evals[c] = 1
            /\ z[c] = [r \in 1 .. Len(obs[c]) |-> HiddenOf(backbone, obs[c][r])]
            /\ \A r \in DOMAIN z[c] : \A j \in DOMAIN z[c][r] : z[c][r][j] >= 0
            /\ ret[c].out[1] = [r \in 1 .. Len(obs[c]) |-> <<GammaOf(gamma_head, z[c][r])>>]
            /\ ret[c].out[2] = [r \in 1 .. Len(obs[c]) |-> <<ValueOf(value_head, z[c][r])>>]

C10_Witness ==
    /\ HasReturned(1)
    /\ \E r \in DOMAIN z[1] : \E j \in DOMAIN z[1][r] : z[1][r][j] > 0
    /\ ret[1].out[2][1][1] # value_head.bias[1]
    /\ ret[1].out[1][1][1] > Zero32
    /\ ret[1].out[1][1][1] < One32
    /\ ret[1].out[1][1][1] # Sigmoid32(gamma_head.bias[1])
    /\ \E i \in DOMAIN gamma_head.weight[1] : gamma_head.weight[1][i] # 0
    /\ \E i \in DOMAIN value_head.weight[1] : value_head.weight[1][i] # 0

====
